---- MODULE Spec2Model ----
(***************************************************************************)
(* Model of mocky (src/main.py): an OpenAPI mock server.  MockyApp parses  *)
(* a specification document, registers one Flask route per (path, method)  *)
(* pair with a handler closure built by create_handler, and then serves    *)
(* requests with those handlers.                                           *)
(*                                                                         *)
(* JSON values are three levels deep and uniformly shaped so that any two  *)
(* values of the same level can be compared:                               *)
(*   leaf  = [t, s]          a string or null                              *)
(*   inner = [t, s, o]       o maps keys to leaves                         *)
(*   top   = [t, s, o]       o maps keys to inner values                   *)
(* with t in {"obj", "arr", "str", "num", "null"}; an "arr" stands for the *)
(* one-element list [s], a "num" for the number whose digits are s.        *)
(* Python dicts are functions on a set of strings.                         *)
(***************************************************************************)
EXTENDS Integers, Sequences, FiniteSets, TLC

VARIABLES pc, doc, todo, routes, fixed_routes, otel, counter, ret,
          handler, request, response, template, converted, inflight

vars == <<pc, doc, todo, routes, fixed_routes, otel, counter, ret,
          handler, request, response, template, converted, inflight>>

\* ------------------------------------------------------------------ dicts
EmptyDict == [k \in {} |-> k]

\* dict.get(k, default)
Get(d, k, default) == IF k \in DOMAIN d THEN d[k] ELSE default

\* ------------------------------------------------------------ JSON values
LStr(x) == [t |-> "str", s |-> x]
LNull == [t |-> "null", s |-> ""]

JStr(x) == [t |-> "str", s |-> x, o |-> EmptyDict]
JNum(n) == [t |-> "num", s |-> ToString(n), o |-> EmptyDict]
JNull == [t |-> "null", s |-> "", o |-> EmptyDict]
JArr(x) == [t |-> "arr", s |-> x, o |-> EmptyDict]
JObj(m) == [t |-> "obj", s |-> "", o |-> m]

\* isinstance(v, dict)
IsDict(v) == v.t = "obj"

\* {**a, **b}: a new dict, keys of b override keys of a, one level deep
Merge(a, b) == JObj(b.o @@ a.o)

\* {**a, k: v}
MergeKey(a, k, v) == JObj((k :> v) @@ a.o)

\* ---------------------------------------------------------------- strings
\* Method names and paths are sequences of one-character strings.
Str_get == <<"g", "e", "t">>
Str_GET == <<"G", "E", "T">>
Str_post == <<"p", "o", "s", "t">>
Str_POST == <<"P", "O", "S", "T">>
Str_put == <<"p", "u", "t">>
Str_PUT == <<"P", "U", "T">>
Str_delete == <<"d", "e", "l", "e", "t", "e">>
Str_DELETE == <<"D", "E", "L", "E", "T", "E">>
Str_patch == <<"p", "a", "t", "c", "h">>
Str_PATCH == <<"P", "A", "T", "C", "H">>

LowerChars == <<"a", "c", "d", "e", "g", "h", "l", "o", "p", "s", "t", "u">>
UpperChars == <<"A", "C", "D", "E", "G", "H", "L", "O", "P", "S", "T", "U">>

UpperChar(c) ==
    IF \E i \in 1..Len(LowerChars) : LowerChars[i] = c
    THEN UpperChars[CHOOSE i \in 1..Len(LowerChars) : LowerChars[i] = c]
    ELSE c

\* str.upper()
Upper(s) == [i \in 1..Len(s) |-> UpperChar(s[i])]

\* str.replace("{", "<").replace("}", ">")
ReplaceChar(s, old, new) == [i \in 1..Len(s) |-> IF s[i] = old THEN new ELSE s[i]]

\* variant: only the opening brace is replaced
convert_path_OnlyOpen(openapi_path) == ReplaceChar(openapi_path, "{", "<")

convert_path(openapi_path) ==
    ReplaceChar(ReplaceChar(openapi_path, "{", "<"), "}", ">")

\* --------------------------------------------------------------- requests
\* request.content_type: the Content-Type header, NoContentType when absent
NoContentType == [type |-> "", subtype |-> "", param |-> ""]
ApplicationJson == [type |-> "application", subtype |-> "json", param |-> ""]

ContentTypes ==
    { NoContentType,
      ApplicationJson,
      [type |-> "application", subtype |-> "json", param |-> "charset=utf-8"],
      [type |-> "application", subtype |-> "vnd.api+json", param |-> ""],
      [type |-> "text", subtype |-> "plain", param |-> ""] }

PlusJsonSubtypes == {"vnd.api+json"}

\* werkzeug Request.is_json: the mimetype (parameters dropped) is
\* application/json or application/*+json
is_json(ct) ==
    /\ ct.type = "application"
    /\ (ct.subtype = "json" \/ ct.subtype \in PlusJsonSubtypes)

\* A request body is a byte string that either is a JSON text for value
\* `value` or is not JSON at all.
MalformedBody == [wellformed |-> FALSE, value |-> JNull]
JsonBody(v) == [wellformed |-> TRUE, value |-> v]

\* request.json (werkzeug Request.get_json, force=False, silent=False):
\* a non-JSON mimetype raises UnsupportedMediaType before the body is read;
\* otherwise the body is read and json.loads either returns the value or
\* BadRequest is raised.
request_json(req) ==
    IF ~is_json(req.content_type)
    THEN [raised |-> "UnsupportedMediaType", data |-> JNull, read |-> FALSE]
    ELSE IF ~req.body.wellformed
         THEN [raised |-> "BadRequest", data |-> JNull, read |-> TRUE]
         ELSE [raised |-> "", data |-> req.body.value, read |-> TRUE]

\* request.args.get(name): the value, or None
ArgsGet(req, name) ==
    IF name \in DOMAIN req.args THEN LStr(req.args[name]) ELSE LNull

\* -------------------------------------------------------------- responses
\* jsonify(v): a response whose JSON document is v
Reply(status, v, read, ex) ==
    [status |-> status, json |-> v, raised |-> "", read |-> read, example |-> ex]

\* an exception escaping the view function: Flask answers 500
Raise(exc, read, ex) ==
    [status |-> 500, json |-> JStr("Internal Server Error"), raised |-> exc,
     read |-> read, example |-> ex]

ErrorBody(msg) == JObj("error" :> JStr(msg))
DeletedBody == JObj("message" :> JStr("Resource deleted"))

\* ------------------------------------------------- create_handler.handler
\* query_params built by the loop over operation.get("parameters", [])
RECURSIVE QueryParamsFrom(_, _, _)
QueryParamsFrom(params, req, acc) ==
    IF params = <<>> THEN acc
    ELSE LET param == Head(params)
             acc2 == IF Get(param, "in", "") = "query"
                     THEN (param["name"] :> ArgsGet(req, param["name"])) @@ acc
                     ELSE acc
         IN QueryParamsFrom(Tail(params), req, acc2)

QueryParams(operation, req) ==
    QueryParamsFrom(Get(operation, "parameters", <<>>), req, EmptyDict)

\* {**example, "query_params": query_params}; a non-mapping example makes
\* the ** unpacking raise TypeError
GetWithQuery(example, qp) ==
    IF IsDict(example)
    THEN Reply(200, MergeKey(example, "query_params", [t |-> "obj", s |-> "", o |-> qp]),
               FALSE, example)
    ELSE Raise("TypeError", FALSE, example)

\* variant: query_params is added even when it is empty
HandleGet_AlwaysMerge(example, qp) == GetWithQuery(example, qp)

HandleGet(example, qp) ==
    IF qp # EmptyDict THEN GetWithQuery(example, qp)
    ELSE Reply(200, example, FALSE, example)

\* variant: the except clause does not catch what request.json raises
MergeBody_Uncaught(example, req) ==
    LET j == request_json(req) IN
    IF j.raised # ""
    THEN Raise(j.raised, j.read, example)
    ELSE IF IsDict(j.data) /\ IsDict(example)
         THEN Reply(200, Merge(example, j.data), TRUE, example)
         ELSE Reply(200, example, TRUE, example)

\* variant: the body is merged into the captured example in place
\* (example.update(data)) and the example is returned
MergeBody_InPlace(example, req) ==
    LET j == request_json(req) IN
    IF j.raised # ""
    THEN Reply(400, ErrorBody("Invalid request body"), j.read, example)
    ELSE IF IsDict(j.data) /\ IsDict(example)
         THEN Reply(200, Merge(example, j.data), TRUE, Merge(example, j.data))
         ELSE Reply(200, example, TRUE, example)

\* the try block shared by POST (after the content-type test) and PUT
MergeBody(example, req) ==
    LET j == request_json(req) IN
    IF j.raised # ""
    THEN Reply(400, ErrorBody("Invalid request body"), j.read, example)
    ELSE IF IsDict(j.data) /\ IsDict(example)
         THEN Reply(200, Merge(example, j.data), TRUE, example)
         ELSE Reply(200, example, TRUE, example)

\* variant: the content type is tested with request.is_json
HandlePost_AnyJson(example, req) ==
    IF is_json(req.content_type)
    THEN MergeBody(example, req)
    ELSE Reply(415, ErrorBody("Unsupported Media Type"), FALSE, example)

HandlePost(example, req) ==
    IF req.content_type = ApplicationJson
    THEN MergeBody(example, req)
    ELSE Reply(415, ErrorBody("Unsupported Media Type"), FALSE, example)

HandlePut(example, req) == MergeBody(example, req)

\* variant: the method name is compared without upper()
Handler_CaseSensitive(h, req) ==
    LET qp == QueryParams(h.operation, req)
        m == h.method
    IN  IF m = Str_POST THEN HandlePost(h.example, req)
        ELSE IF m = Str_GET THEN HandleGet(h.example, qp)
        ELSE IF m = Str_PUT THEN HandlePut(h.example, req)
        ELSE IF m = Str_DELETE THEN Reply(204, DeletedBody, FALSE, h.example)
        ELSE Reply(405, ErrorBody("Method not supported"), FALSE, h.example)

\* variant: the final else branch is missing, other methods fall through to
\* the closing return jsonify(example)
Handler_FallThrough(h, req) ==
    LET qp == QueryParams(h.operation, req)
        m == Upper(h.method)
    IN  IF m = Str_POST THEN HandlePost(h.example, req)
        ELSE IF m = Str_GET THEN HandleGet(h.example, qp)
        ELSE IF m = Str_PUT THEN HandlePut(h.example, req)
        ELSE IF m = Str_DELETE THEN Reply(204, DeletedBody, FALSE, h.example)
        ELSE Reply(200, h.example, FALSE, h.example)

\* handler(): the closure over (operation, example, method) applied to one
\* request.  The result carries the captured example as the call leaves it.
Handler(h, req) ==
    LET qp == QueryParams(h.operation, req)
        m == Upper(h.method)
    IN  IF m = Str_POST THEN HandlePost(h.example, req)
        ELSE IF m = Str_GET THEN HandleGet(h.example, qp)
        ELSE IF m = Str_PUT THEN HandlePut(h.example, req)
        ELSE IF m = Str_DELETE THEN Reply(204, DeletedBody, FALSE, h.example)
        ELSE Reply(405, ErrorBody("Method not supported"), FALSE, h.example)

create_handler(operation, example, method) ==
    [operation |-> operation, example |-> example, method |-> method]

\* ------------------------------------------------ generate_default_response
generate_default_response(status, media_type) ==
    IF media_type = "application/json"
    THEN JObj(("status" :> JNum(status)) @@ ("message" :> JStr("Default response")))
    ELSE JStr("Default response with status " \o ToString(status))

\* variant: a declared example of null counts as missing
ResolveExample_NullIsMissing(operation) ==
    LET responses == Get(operation, "responses", EmptyDict)
        default_resp == generate_default_response(200, "application/json")
        declared == IF "200" \in DOMAIN responses /\ "content" \in DOMAIN responses["200"]
                    THEN Get(Get(responses["200"]["content"], "application/json", EmptyDict),
                             "example", default_resp)
                    ELSE default_resp
    IN  IF declared = JNull THEN default_resp ELSE declared

\* register_routes, lines 278-286: the example of one operation
ResolveExample(operation) ==
    LET responses == Get(operation, "responses", EmptyDict)
        default_resp == generate_default_response(200, "application/json")
    IN  IF "200" \in DOMAIN responses /\ "content" \in DOMAIN responses["200"]
        THEN Get(Get(responses["200"]["content"], "application/json", EmptyDict),
                 "example", default_resp)
        ELSE default_resp

\* ------------------------------------------------------------ input spaces
InnerXY == [t |-> "obj", s |-> "", o |-> ("x" :> LStr("1")) @@ ("y" :> LStr("2"))]
InnerX9 == [t |-> "obj", s |-> "", o |-> ("x" :> LStr("9"))]

ExMessage == JObj("message" :> JStr("test"))
ExNested == JObj(("message" :> JStr("test")) @@ ("a" :> InnerXY))
ExWithQueryParams == JObj(("message" :> JStr("test")) @@ ("query_params" :> JStr("old")))

Examples ==
    { ExMessage, ExNested, ExWithQueryParams,
      generate_default_response(200, "application/json"),
      JArr("item"), JNull }

Param(name, loc) == ("name" :> name) @@ ("in" :> loc)

ParameterLists ==
    { <<>>,
      <<Param("param1", "query")>>,
      <<Param("id", "path"), Param("X-Trace", "header")>>,
      <<Param("param1", "query"), Param("id", "path"), Param("param2", "query")>> }

ResponsesWith(example) ==
    "200" :> ("content" :> ("application/json" :> ("example" :> example)))

\* operations as create_handler receives them: with and without "parameters"
HandlerOperations ==
    { "responses" :> ResponsesWith(ExMessage) }
    \cup { ("parameters" :> ps) @@ ("responses" :> ResponsesWith(ExMessage)) :
             ps \in ParameterLists }

Methods ==
    { Str_get, Str_GET, Str_post, Str_POST, Str_put, Str_PUT,
      Str_delete, Str_DELETE, Str_patch, Str_PATCH }

Bodies ==
    { MalformedBody,
      JsonBody(JObj("key" :> JStr("value"))),
      JsonBody(JObj(("message" :> JStr("changed")) @@ ("a" :> InnerX9))),
      JsonBody(JArr("item")),
      JsonBody(JNull) }

ArgSets ==
    { EmptyDict,
      "param1" :> "value1",
      ("param2" :> "value2") @@ ("other" :> "z") }

Requests == [content_type : ContentTypes, body : Bodies, args : ArgSets]

NoHandler == create_handler(EmptyDict, JNull, <<>>)
NoRequest == [content_type |-> NoContentType, body |-> MalformedBody, args |-> EmptyDict]
NoResponse == [status |-> 0, json |-> JNull, raised |-> "", read |-> FALSE, example |-> JNull]
NoReturn == [returned |-> FALSE, none |-> TRUE, value |-> 0]
NoDocument == [parses |-> FALSE, items |-> <<>>]

\* the worker threads of the transport, each idle or holding one request
NumWorkers == 2
Workers == 1..NumWorkers
IdleWorker == [busy |-> FALSE, route |-> 0, req |-> NoRequest]
NoneInFlight == [w \in Workers |-> IdleWorker]

\* ------------------------------------------- handlers called on their own
\* create_handler(operation, example, method) called directly and the
\* handler invoked inside a request context, as tests/test_main.py does.
InitHandler ==
    /\ pc = "direct"
    /\ doc = NoDocument
    /\ todo = <<>>
    /\ routes = <<>>
    /\ fixed_routes = <<>>
    /\ otel = FALSE
    /\ counter = 0
    /\ ret = NoReturn
    /\ \E operation \in HandlerOperations, example \in Examples, method \in Methods :
          handler = create_handler(operation, example, method)
    /\ request = NoRequest
    /\ response = NoResponse
    /\ template = <<>>
    /\ converted = <<>>
    /\ inflight = NoneInFlight

Invoke(req) ==
    /\ pc = "direct"
    /\ request' = req
    /\ response' = Handler(handler, req)
    /\ handler' = [handler EXCEPT !.example = response'.example]
    /\ UNCHANGED <<pc, doc, todo, routes, fixed_routes, otel, counter, ret,
                 template, converted, inflight>>

NextHandler == \E req \in Requests : Invoke(req)

SpecHandler == InitHandler /\ [][NextHandler]_vars

\* ------------------------------------------- convert_path called on its own
MaxLen == 4
PathChars == {"/", "a", "{", "}", "<"}

\* tests/test_main.py: /users/{user_id}/posts/{post_id}
TestTemplate ==
    <<"/", "u", "s", "e", "r", "s", "/", "{", "u", "s", "e", "r", "_", "i", "d", "}",
      "/", "p", "o", "s", "t", "s", "/", "{", "p", "o", "s", "t", "_", "i", "d", "}">>

Templates ==
    UNION { [1..n -> PathChars] : n \in 0..MaxLen } \cup {TestTemplate}

\* mocky_app.convert_path(openapi_path) on an application object, as
\* tests/test_main.py calls it
InitConvert ==
    /\ pc = "convert"
    /\ doc = NoDocument
    /\ todo = <<>>
    /\ routes = <<>>
    /\ fixed_routes = <<>>
    /\ otel = FALSE
    /\ counter = 0
    /\ ret = NoReturn
    /\ handler = NoHandler
    /\ request = NoRequest
    /\ response = NoResponse
    /\ template \in Templates
    /\ converted = <<>>
    /\ inflight = NoneInFlight

ConvertPath ==
    /\ pc = "convert"
    /\ converted' = convert_path(template)
    /\ pc' = "converted"
    /\ UNCHANGED <<doc, todo, routes, fixed_routes, otel, counter, ret,
                   handler, request, response, template, inflight>>

NextConvert == ConvertPath

SpecConvert == InitConvert /\ [][NextConvert]_vars

\* ------------------------------------------------------------ the router
\* Flask.add_url_rule / werkzeug Rule: a rule must start with a slash and
\* every "<" must open a non-empty variable name closed by ">".
RECURSIVE WellBracketed(_, _, _)
WellBracketed(rule, inside, named) ==
    IF rule = <<>> THEN ~inside
    ELSE LET c == Head(rule) IN
         IF c = "<" THEN ~inside /\ WellBracketed(Tail(rule), TRUE, FALSE)
         ELSE IF c = ">" THEN inside /\ named /\ WellBracketed(Tail(rule), FALSE, FALSE)
         ELSE WellBracketed(Tail(rule), inside, inside)

ValidRule(rule) ==
    /\ rule # <<>>
    /\ Head(rule) = "/"
    /\ WellBracketed(rule, FALSE, FALSE)

\* endpoint=f"{flask_path}_{method}"
EndpointName(flask_path, method) == flask_path \o <<"_">> \o method

\* methods=[method.upper()]; the router adds OPTIONS, and HEAD to GET
Str_HEAD == <<"H", "E", "A", "D">>
Str_OPTIONS == <<"O", "P", "T", "I", "O", "N", "S">>
RuleMethods(method) ==
    {Upper(method), Str_OPTIONS} \cup (IF Upper(method) = Str_GET THEN {Str_HEAD} ELSE {})

\* add_url_rule raises for a malformed rule (ValueError) and for an endpoint
\* that already has another view function (AssertionError)
AddUrlRuleRaises(rs, rule, endpoint) ==
    \/ ~ValidRule(rule)
    \/ \E i \in DOMAIN rs : rs[i].endpoint = endpoint

\* ----------------------------------------------- specification documents
Str_parameters == <<"p", "a", "r", "a", "m", "e", "t", "e", "r", "s">>

Path_t == <<"/", "t">>
Path_u == <<"/", "u">>
Path_a == <<"/", "{", "a", "}">>
Path_angle == <<"/", "<", "a", ">">>
Path_unclosed == <<"/", "{", "a">>

QueryParameters == "parameters" :> <<Param("param1", "query")>>

OperationShapes ==
    { EmptyDict,
      "responses" :> ("404" :> ("content" :> ("application/json" :> ("example" :> ExMessage)))),
      "responses" :> ("200" :> ("description" :> "OK")),
      "responses" :> ("200" :> ("content" :> ("text/plain" :> ("example" :> ExMessage)))),
      "responses" :> ("200" :> ("content" :> ("application/json" :> ("schema" :> "object")))) }

DeclaredShapes ==
    { QueryParameters @@ ("responses" :> ResponsesWith(JArr("item"))),
      "responses" :> ResponsesWith(JNull) }

OpMessage == QueryParameters @@ ("responses" :> ResponsesWith(ExMessage))

\* one (path, method) entry of the document; isdict is false when the value
\* under the method key is not a mapping (e.g. a path-level "parameters" list)
Item(path, method, operation) ==
    [path |-> path, method |-> method, isdict |-> TRUE, operation |-> operation]

Items ==
    { Item(Path_t, m, OpMessage) : m \in {Str_post, Str_PUT, Str_patch} }
    \cup { Item(Path_u, Str_get, o) : o \in OperationShapes }
    \cup { Item(Path_u, Str_GET, o) : o \in DeclaredShapes }
    \cup { Item(Path_a, Str_get, OpMessage), Item(Path_angle, Str_get, OpMessage),
           Item(Path_unclosed, Str_post, OpMessage) }
    \cup { [path |-> Path_u, method |-> Str_parameters, isdict |-> FALSE,
            operation |-> EmptyDict] }

MaxOps == 2

\* the (path, method) pairs of a document in iteration order; dict keys are
\* unique, so no pair occurs twice
ItemLists ==
    { l \in UNION { [1..n -> Items] : n \in 0..MaxOps } :
        \A i, j \in DOMAIN l :
            (l[i].path = l[j].path /\ l[i].method = l[j].method) => i = j }

\* the file named by --file: unreadable or unparsable, or a parsed tree
Documents ==
    { NoDocument } \cup { [parses |-> TRUE, items |-> l] : l \in ItemLists }

ServeRequests ==
    [content_type : {ApplicationJson, [type |-> "text", subtype |-> "plain", param |-> ""]},
     body : {MalformedBody, JsonBody(JObj("key" :> JStr("value")))},
     args : {EmptyDict, "param1" :> "value1"}]

FixedRules == << <<"/">>, <<"/", "mocky", "/", "info">>,
                 <<"/", "mocky", "/", "health">>, <<"/", "mocky", "/", "routes">> >>

\* ------------------------------------------------------ MockyApp lifecycle
\* __init__ up to the call of load_and_register_routes
Init ==
    /\ pc = "load"
    /\ doc \in Documents
    /\ todo = <<>>
    /\ routes = <<>>
    /\ fixed_routes = <<>>
    /\ otel \in BOOLEAN
    /\ counter = 0
    /\ ret = NoReturn
    /\ handler = NoHandler
    /\ request = NoRequest
    /\ response = NoResponse
    /\ template = <<>>
    /\ converted = <<>>
    /\ inflight = NoneInFlight

\* variant: the exception is logged and not re-raised
OnStartupError_Swallowed == "reload"

\* load_and_register_routes, lines 135-137: an exception of the first try
\* block is logged and re-raised; it leaves __init__ and main never calls run
OnStartupError == "aborted"

\* variant: the counter is incremented without testing self.meter
CounterAdd_Always(meter, c) == c + 1

\* register_routes, lines 289-290: dynamic_routes_counter.add(1) if self.meter
CounterAdd(meter, c) == IF meter THEN c + 1 ELSE c

\* load_and_register_routes: _parse_openapi
ParseOpenapi ==
    /\ pc = "load"
    /\ IF doc.parses
       THEN pc' = "register" /\ todo' = doc.items
       ELSE pc' = OnStartupError /\ todo' = todo
    /\ UNCHANGED <<doc, routes, fixed_routes, otel, counter, ret, handler, request, response,
                 template, converted, inflight>>

\* register_routes: one iteration of the loop over paths and methods
RegisterOperation ==
    /\ pc = "register"
    /\ todo # <<>>
    /\ LET item == Head(todo)
           flask_path == convert_path(item.path)
           example == ResolveExample(item.operation)
           endpoint == EndpointName(flask_path, item.method)
           entry == [rule |-> flask_path, endpoint |-> endpoint,
                     methods |-> RuleMethods(item.method),
                     view_func |-> create_handler(item.operation, example, item.method)]
       IN  IF ~item.isdict
           THEN \* operation.get raises AttributeError
                pc' = OnStartupError /\ UNCHANGED <<todo, routes, counter>>
           ELSE /\ counter' = CounterAdd(otel, counter)
                /\ IF AddUrlRuleRaises(routes, flask_path, endpoint)
                   THEN pc' = OnStartupError /\ UNCHANGED <<todo, routes>>
                   ELSE /\ routes' = Append(routes, entry)
                        /\ todo' = Tail(todo)
                        /\ pc' = pc
    /\ UNCHANGED <<doc, fixed_routes, otel, ret, handler, request, response,
                 template, converted, inflight>>

\* register_routes falls off its end: it returns None
RegisterReturn ==
    /\ pc = "register"
    /\ todo = <<>>
    /\ ret' = [returned |-> TRUE, none |-> TRUE, value |-> 0]
    /\ pc' = "reload"
    /\ UNCHANGED <<doc, todo, routes, fixed_routes, otel, counter, handler, request, response,
                 template, converted, inflight>>

\* load_and_register_routes, lines 139-148: the file is opened and parsed a
\* second time; a failure raises ValueError
Reload ==
    /\ pc = "reload"
    /\ \E readable \in BOOLEAN : pc' = IF readable THEN "fixed" ELSE "aborted"
    /\ UNCHANGED <<doc, todo, routes, fixed_routes, otel, counter, ret, handler, request, response,
                 template, converted, inflight>>

\* __init__, lines 117-120: the four fixed routes
RegisterFixed ==
    /\ pc = "fixed"
    /\ fixed_routes' = FixedRules
    /\ pc' = "constructed"
    /\ UNCHANGED <<doc, todo, routes, otel, counter, ret, handler, request, response,
                 template, converted, inflight>>

\* main: mocky_app.run()
Run ==
    /\ pc = "constructed"
    /\ pc' = "serving"
    /\ UNCHANGED <<doc, todo, routes, fixed_routes, otel, counter, ret, handler, request, response,
                 template, converted, inflight>>

\* the router dispatches one request to the view function of route i
Serve(i, req) ==
    /\ pc = "serving"
    /\ i \in DOMAIN routes
    /\ request' = req
    /\ response' = Handler(routes[i].view_func, req)
    /\ handler' = [routes[i].view_func EXCEPT !.example = response'.example]
    /\ routes' = [routes EXCEPT ![i].view_func = handler']
    /\ UNCHANGED <<pc, doc, todo, fixed_routes, otel, counter, ret, template, converted, inflight>>

Next ==
    \/ ParseOpenapi
    \/ RegisterOperation
    \/ RegisterReturn
    \/ Reload
    \/ RegisterFixed
    \/ Run
    \/ \E i \in 1..MaxOps, req \in ServeRequests : Serve(i, req)

Spec == Init /\ [][Next]_vars

\* ------------------------------------------------- concurrent dispatching
\* The transport may run handlers on several worker threads: requests are
\* accepted while others are still in flight and complete in any order.  A
\* handler writes no shared object, so its run is one step.
WorkerDocuments ==
    { [parses |-> TRUE,
       items |-> <<Item(Path_t, Str_post, OpMessage), Item(Path_t, Str_PUT, OpMessage)>>],
      [parses |-> TRUE,
       items |-> <<Item(Path_u, Str_GET, QueryParameters @@ ("responses" :> ResponsesWith(JArr("item")))),
                   Item(Path_t, Str_post, "responses" :> ResponsesWith(ExNested))>>],
      [parses |-> TRUE,
       items |-> <<Item(Path_u, Str_get, QueryParameters @@ ("responses" :> ("200" :> ("description" :> "OK"))))>>] }

WorkerRequests ==
    [content_type : {ApplicationJson},
     body : {MalformedBody,
             JsonBody(JObj("key" :> JStr("value"))),
             JsonBody(JObj(("message" :> JStr("changed")) @@ ("a" :> InnerX9)))},
     args : {EmptyDict, "param1" :> "value1"}]

InitWorkers ==
    /\ pc = "load"
    /\ doc \in WorkerDocuments
    /\ todo = <<>>
    /\ routes = <<>>
    /\ fixed_routes = <<>>
    /\ otel = FALSE
    /\ counter = 0
    /\ ret = NoReturn
    /\ handler = NoHandler
    /\ request = NoRequest
    /\ response = NoResponse
    /\ template = <<>>
    /\ converted = <<>>
    /\ inflight = NoneInFlight

\* the router matches a request to route i and hands it to idle worker w
Begin(w, i, req) ==
    /\ pc = "serving"
    /\ i \in DOMAIN routes
    /\ ~inflight[w].busy
    /\ inflight' = [inflight EXCEPT ![w] = [busy |-> TRUE, route |-> i, req |-> req]]
    /\ UNCHANGED <<pc, doc, todo, routes, fixed_routes, otel, counter, ret,
                   handler, request, response, template, converted>>

\* worker w runs the view function of its route and sends the answer
Finish(w) ==
    /\ pc = "serving"
    /\ inflight[w].busy
    /\ LET i == inflight[w].route IN
       /\ request' = inflight[w].req
       /\ response' = Handler(routes[i].view_func, inflight[w].req)
       /\ handler' = [routes[i].view_func EXCEPT !.example = response'.example]
       /\ routes' = [routes EXCEPT ![i].view_func = handler']
    /\ inflight' = [inflight EXCEPT ![w] = IdleWorker]
    /\ UNCHANGED <<pc, doc, todo, fixed_routes, otel, counter, ret, template, converted>>

NextWorkers ==
    \/ ParseOpenapi
    \/ RegisterOperation
    \/ RegisterReturn
    \/ Reload
    \/ RegisterFixed
    \/ Run
    \/ \E w \in Workers, i \in 1..MaxOps, req \in WorkerRequests : Begin(w, i, req)
    \/ \E w \in Workers : Finish(w)

SpecWorkers == InitWorkers /\ [][NextWorkers]_vars

\* ------------------------------------------------- properties of handlers
Answered == response.status # 0

BuiltFor(m) == Upper(handler.method) = m

BodyParses == request.body.wellformed

\* the names of the operation's parameters whose location is "query"
DeclaredQueryNames ==
    LET ps == IF "parameters" \in DOMAIN handler.operation
              THEN handler.operation["parameters"] ELSE <<>>
    IN  { ps[i]["name"] : i \in { j \in DOMAIN ps : ps[j]["in"] = "query" } }

\* v is the one-level merge of objects a and b, b taking precedence
IsShallowMerge(v, a, b) ==
    /\ v.t = "obj"
    /\ DOMAIN v.o = DOMAIN a.o \cup DOMAIN b.o
    /\ \A k \in DOMAIN b.o : v.o[k] = b.o[k]
    /\ \A k \in DOMAIN a.o \ DOMAIN b.o : v.o[k] = a.o[k]

\* the 200 answer of POST and PUT for a parsed body
IsMergeAnswer ==
    /\ response.status = 200
    /\ IF request.body.value.t = "obj" /\ handler.example.t = "obj"
       THEN IsShallowMerge(response.json, handler.example, request.body.value)
       ELSE response.json = handler.example

\* C1: a POST handler (content type exactly application/json) or a PUT
\* handler answers every request whose body parses as JSON with 200 and the
\* shallow merge of example and body (body keys win, nested objects replaced
\* wholesale) when both are objects, and with the example unchanged otherwise.
C1_MergeOnParsedBody ==
    (/\ Answered
     /\ \/ BuiltFor(Str_POST) /\ request.content_type = ApplicationJson
        \/ BuiltFor(Str_PUT)
     /\ BodyParses)
    => IsMergeAnswer

\* C2: a PUT handler parses the body whatever the declared content type: a
\* valid JSON body gets the 200 answer for every content type, and 400 is
\* returned only when the body itself fails to parse.
C2_PutIgnoresContentType ==
    (Answered /\ BuiltFor(Str_PUT))
    => /\ BodyParses => IsMergeAnswer
       /\ response.status = 400 => ~BodyParses

\* C3: a GET handler whose operation declares a query parameter answers every
\* request, for every example, with 200 and the example's top-level keys plus
\* "query_params" mapping each declared query parameter to the request's
\* value or null; other parameters are left out and an existing query_params
\* key is overwritten.
C3_GetAddsQueryParams ==
    (Answered /\ BuiltFor(Str_GET) /\ DeclaredQueryNames # {})
    => /\ response.status = 200
       /\ response.json.t = "obj"
       /\ DOMAIN response.json.o = DOMAIN handler.example.o \cup {"query_params"}
       /\ \A k \in DOMAIN handler.example.o \ {"query_params"} :
             response.json.o[k] = handler.example.o[k]
       /\ LET qp == response.json.o["query_params"] IN
          /\ qp.t = "obj"
          /\ DOMAIN qp.o = DeclaredQueryNames
          /\ \A n \in DeclaredQueryNames :
                qp.o[n] = IF n \in DOMAIN request.args
                          THEN LStr(request.args[n]) ELSE LNull

\* C4: a POST handler answers every request whose content type is not exactly
\* application/json with 415 {"error": "Unsupported Media Type"} and never
\* reads the body on that path.
C4_PostUnsupportedMediaType ==
    (Answered /\ BuiltFor(Str_POST) /\ request.content_type # ApplicationJson)
    => /\ response.status = 415
       /\ response.json = JObj("error" :> JStr("Unsupported Media Type"))
       /\ ~response.read

C4_Witness ==
    /\ Answered
    /\ BuiltFor(Str_POST)
    /\ request.content_type.subtype = "json"
    /\ request.content_type.param # ""
    /\ ~BodyParses
    /\ response.status = 415

\* C9: a GET handler whose operation declares no query parameter answers
\* every request with 200 and the example unchanged, whatever the query string.
C9_GetWithoutQueryParams ==
    (Answered /\ BuiltFor(Str_GET) /\ DeclaredQueryNames = {})
    => /\ response.status = 200
       /\ response.json = handler.example

C9_Witness ==
    /\ Answered
    /\ BuiltFor(Str_GET)
    /\ "parameters" \in DOMAIN handler.operation
    /\ handler.operation["parameters"] # <<>>
    /\ DeclaredQueryNames = {}
    /\ request.args # EmptyDict
    /\ handler.example.t = "arr"
    /\ response.status = 200

\* C10: a DELETE handler answers every request with 204 and
\* {"message": "Resource deleted"}, whatever the operation, example, body,
\* content type and query string.
C10_DeleteAlways204 ==
    (Answered /\ BuiltFor(Str_DELETE))
    => /\ response.status = 204
       /\ response.json = JObj("message" :> JStr("Resource deleted"))

C10_Witness ==
    /\ Answered
    /\ handler.method = Str_delete
    /\ DeclaredQueryNames # {}
    /\ handler.example.t # "obj"
    /\ request.body.wellformed
    /\ request.content_type = ApplicationJson
    /\ request.args # EmptyDict
    /\ response.status = 204

SupportedMethods == {Str_GET, Str_POST, Str_PUT, Str_DELETE}

\* the same letters in upper case, position by position
IsUpperOf(u, m) ==
    /\ Len(u) = Len(m)
    /\ \A k \in 1..Len(m) :
          \/ u[k] = m[k]
          \/ \E i \in 1..Len(LowerChars) : m[k] = LowerChars[i] /\ u[k] = UpperChars[i]

\* C11: a handler built for a method name that is none of GET, POST, PUT,
\* DELETE in any letter case answers every request with 405
\* {"error": "Method not supported"} and never with the example; a handler
\* built with the lower-case name of a supported method answers as the
\* handler built with the upper-case name does.
C11_OtherMethodsAre405 ==
    Answered =>
       IF \E u \in SupportedMethods : IsUpperOf(u, handler.method)
       THEN \A u \in SupportedMethods :
               IsUpperOf(u, handler.method) =>
                  response = Handler(create_handler(handler.operation, handler.example, u),
                                     request)
       ELSE /\ response.status = 405
            /\ response.json = JObj("error" :> JStr("Method not supported"))
            /\ response.json # handler.example

C11_Witness ==
    /\ Answered
    /\ handler.method = Str_patch
    /\ handler.example = ExMessage
    /\ request.content_type = ApplicationJson
    /\ request.body.wellformed
    /\ response.status = 405

\* -------------------------------------------- properties of convert_path
\* C12: convert_path(s) has the length of s and is s with every "{" replaced
\* by "<" and every "}" by ">", all other characters and their order kept;
\* /users/{user_id}/posts/{post_id} becomes /users/<user_id>/posts/<post_id>.
C12_ConvertPathReplacesBraces ==
    pc = "converted"
    => /\ Len(converted) = Len(template)
       /\ \A k \in 1..Len(template) :
             /\ template[k] = "{" => converted[k] = "<"
             /\ template[k] = "}" => converted[k] = ">"
             /\ template[k] \notin {"{", "}"} => converted[k] = template[k]
       /\ template = TestTemplate =>
             converted =
               <<"/", "u", "s", "e", "r", "s", "/", "<", "u", "s", "e", "r", "_", "i", "d", ">",
                 "/", "p", "o", "s", "t", "s", "/", "<", "p", "o", "s", "t", "_", "i", "d", ">">>

C12_Witness ==
    /\ pc = "converted"
    /\ template = <<"/", "{", "a", "}">>
    /\ converted = <<"/", "<", "a", ">">>

\* --------------------------------------------- properties of the lifecycle
\* C5: a POST handler (content type exactly application/json) or a PUT
\* handler answers a request whose body fails to parse with 400
\* {"error": "Invalid request body"}, and answering it leaves the registered
\* routes, and with them the answers to all other requests, unchanged.
C5_InvalidBodyIs400 ==
    [][ (/\ pc' = "serving"
         /\ response' # response \/ request' # request
         /\ \/ Upper(handler'.method) = Str_POST /\ request'.content_type = ApplicationJson
            \/ Upper(handler'.method) = Str_PUT
         /\ ~request'.body.wellformed)
        => /\ response'.status = 400
           /\ response'.json = JObj("error" :> JStr("Invalid request body"))
           /\ routes' = routes
           /\ pc = "serving" ]_vars

C5_Witness ==
    /\ pc = "serving"
    /\ Len(routes) = 2
    /\ BuiltFor(Str_PUT)
    /\ ~is_json(request.content_type)
    /\ ~BodyParses
    /\ response.status = 400

\* rule is path with every "{" turned into "<" and every "}" into ">"
Angle(c) == IF c = "{" THEN "<" ELSE IF c = "}" THEN ">" ELSE c

IsConverted(rule, path) ==
    /\ Len(rule) = Len(path)
    /\ \A k \in 1..Len(path) : rule[k] = Angle(path[k])

SameRule(p, q) ==
    /\ Len(p) = Len(q)
    /\ \A k \in 1..Len(p) : Angle(p[k]) = Angle(q[k])

\* route i is the endpoint of the i-th (path, method) pair of the document
RegisteredFor(i) ==
    /\ IsConverted(routes[i].rule, doc.items[i].path)
    /\ Upper(doc.items[i].method) \in routes[i].methods
    /\ routes[i].view_func.method = doc.items[i].method
    /\ routes[i].view_func.operation = doc.items[i].operation
    /\ \A j \in DOMAIN routes : routes[j].endpoint = routes[i].endpoint => j = i

OnePerPair ==
    /\ Len(routes) = Len(doc.items)
    /\ \A i \in DOMAIN routes : RegisteredFor(i)

CountedOnce == counter = IF otel THEN Len(routes) ELSE 0

\* C6 as claimed: register_routes registers one endpoint per (path, method)
\* pair under the converted pattern and that method, returns the number of
\* operations registered, and increments the counter once per operation when
\* metrics are enabled and never otherwise.
C6_ReturnsCount ==
    ret.returned
    => /\ OnePerPair
       /\ ~ret.none
       /\ ret.value = Len(doc.items)
       /\ CountedOnce

\* C6 amended: register_routes registers one endpoint per (path, method) pair
\* under the converted pattern and the upper-cased method and returns nothing
\* (None); the number of registered routes equals the number of pairs, and the
\* counter equals that number when metrics are enabled and stays 0 otherwise.
C6_RegistersOnePerPair ==
    /\ ret.returned => (OnePerPair /\ ret.none /\ CountedOnce)
    /\ (pc = "register" => CountedOnce)
    /\ (~otel => counter = 0)

C6_Witness ==
    /\ ret.returned
    /\ otel
    /\ counter = 2
    /\ Len(routes) = 2
    /\ routes[1].rule = Path_angle
    /\ doc.items[1].path = Path_a

\* some step of startup raises for this document
DocumentFails ==
    \/ ~doc.parses
    \/ \E i \in DOMAIN doc.items :
          \/ ~doc.items[i].isdict
          \/ ~ValidRule([k \in 1..Len(doc.items[i].path) |-> Angle(doc.items[i].path[k])])
          \/ \E j \in 1..(i - 1) : /\ SameRule(doc.items[i].path, doc.items[j].path)
                                   /\ doc.items[i].method = doc.items[j].method

Started == pc \in {"fixed", "constructed", "serving"}

\* C7: an error while parsing the document or registering its routes is
\* fatal: startup is never resumed after it, the application never serves,
\* and no request is ever answered from a partially registered route set.
C7_StartupErrorsAreFatal ==
    /\ [][pc = "aborted" => (pc' = "aborted" /\ response' = NoResponse)]_vars
    /\ [](DocumentFails => ~Started /\ ~Answered)
    /\ [](Started \/ Answered => OnePerPair)

C7_Witness ==
    /\ pc = "aborted"
    /\ doc.parses
    /\ Len(doc.items) = 2
    /\ Len(routes) = 1
    /\ ~Answered

\* the example the document declares for the operation of route i, if any
DeclaresExample(op) ==
    /\ "responses" \in DOMAIN op
    /\ "200" \in DOMAIN op["responses"]
    /\ "content" \in DOMAIN op["responses"]["200"]
    /\ "application/json" \in DOMAIN op["responses"]["200"]["content"]
    /\ "example" \in DOMAIN op["responses"]["200"]["content"]["application/json"]

DefaultJson == JObj(("status" :> [t |-> "num", s |-> "200", o |-> EmptyDict])
                    @@ ("message" :> JStr("Default response")))

\* C8: the example captured for an operation is the declared 200 /
\* application/json example, verbatim, when there is one, and otherwise
\* {"status": 200, "message": "Default response"}; the default generator
\* returns "Default response with status 200" for a non-JSON media type.
C8_ExampleResolution ==
    /\ \A i \in DOMAIN routes :
          LET op == routes[i].view_func.operation IN
          routes[i].view_func.example =
              IF DeclaresExample(op)
              THEN op["responses"]["200"]["content"]["application/json"]["example"]
              ELSE DefaultJson
    /\ generate_default_response(200, "text/plain") = JStr("Default response with status 200")
    /\ generate_default_response(200, "application/json") = DefaultJson

C8_Witness ==
    /\ pc = "serving"
    /\ Len(routes) = 2
    /\ DeclaresExample(routes[1].view_func.operation)
    /\ routes[1].view_func.example = JNull
    /\ ~DeclaresExample(routes[2].view_func.operation)
    /\ "responses" \in DOMAIN routes[2].view_func.operation
    /\ routes[2].view_func.example = DefaultJson

\* ------------------------------------- properties of concurrent dispatching
\* the example an operation has at registration
RegistrationExample(op) ==
    IF DeclaresExample(op)
    THEN op["responses"]["200"]["content"]["application/json"]["example"]
    ELSE DefaultJson

ExamplesIntact ==
    \A i \in DOMAIN routes :
       /\ routes[i].view_func.operation = doc.items[i].operation
       /\ routes[i].view_func.example = RegistrationExample(doc.items[i].operation)

\* the answer is the one a handler freshly built from the registration-time
\* example gives to this request alone
AnswerFromRegistration ==
    Answered =>
       response = Handler(create_handler(handler.operation,
                                         RegistrationExample(handler.operation),
                                         handler.method),
                          request)

\* an object answer has no key from anywhere but the registration-time
\* example, this request's own body and query_params
NoForeignKeys ==
    (Answered /\ response.status = 200 /\ response.json.t = "obj")
    => DOMAIN response.json.o \subseteq
          DOMAIN RegistrationExample(handler.operation).o
          \cup (IF request.body.wellformed THEN DOMAIN request.body.value.o ELSE {})
          \cup {"query_params"}

\* C13: handlers never mutate their captured example or operation: through
\* every sequence and interleaving of requests each route's example stays the
\* value resolved at registration, so an answer depends only on its own
\* request and that example, and keys merged from one request body never
\* show up in the answer to another request.
C13_HandlersDoNotMutate ==
    /\ [](ExamplesIntact /\ AnswerFromRegistration /\ NoForeignKeys)
    /\ [][pc = "serving" => routes' = routes]_vars

C13_Witness ==
    /\ pc = "serving"
    /\ response.status = 200
    /\ BuiltFor(Str_POST)
    /\ "key" \notin DOMAIN response.json.o
    /\ "message" \in DOMAIN response.json.o
    /\ response.json.o["message"] = JStr("changed")
    /\ handler.example = ExMessage
    /\ \E w \in Workers :
          /\ inflight[w].busy
          /\ routes[inflight[w].route].view_func = handler
          /\ inflight[w].req.body = JsonBody(JObj("key" :> JStr("value")))

====
